---- MODULE Spec2Model ----
(***************************************************************************)
(* Model of the fetch-and-normalize operations of finance-ai-agent:        *)
(*   src/data_fetchers.py          FinancialDataFetcher, NewsFetcher       *)
(*   src/yfinance_data_handler.py  YFinanceDataHandler                     *)
(*                                                                         *)
(* Python values are tagged records.  A str is a sequence of one-character *)
(* strings, so that substring tests and float() parsing are computed.      *)
(* A float is the decimal m / 10^e, kept normalised (no trailing zero in   *)
(* the fraction).  An exception that leaves an operator is a record        *)
(* [ok |-> FALSE, exc |-> <class name>].                                   *)
(***************************************************************************)
EXTENDS Integers, Sequences, FiniteSets, TLC

VARIABLES alpha_vantage_api_key, news_api_key, calls, gets, last

vars == <<alpha_vantage_api_key, news_api_key, calls, gets, last>>

(* ------------------------------- bounds -------------------------------- *)

\* longest enumerated price string
MaxStrLen == 2
\* number of invocations in one behaviour
MaxCalls == 2

(* ---------------------------- Python values ---------------------------- *)

PyNone == [t |-> "None"]
PyBool(b) == [t |-> "bool", bool |-> b]
PyInt(n) == [t |-> "int", int |-> n]
PyStr(s) == [t |-> "str", str |-> s]
PyList(s) == [t |-> "list", list |-> s]
PyDict(f) == [t |-> "dict", dict |-> f]

EmptyDict == PyDict([k \in {} |-> PyNone])

RECURSIVE Normalise(_, _)
Normalise(m, e) ==
    IF e > 0 /\ m % 10 = 0 THEN Normalise(m \div 10, e - 1)
    ELSE [t |-> "float", m |-> m, e |-> e]

PyFloat(m, e) == Normalise(m, e)

Returned(v) == [ok |-> TRUE, val |-> v]
Raised(e) == [ok |-> FALSE, exc |-> e]

(* ------------------------------ literals ------------------------------- *)

S_GlobalQuote == <<"G", "l", "o", "b", "a", "l", " ", "Q", "u", "o", "t", "e">>
S_Price == <<"0", "5", ".", " ", "p", "r", "i", "c", "e">>
S_ErrorMessage == <<"E", "r", "r", "o", "r", " ", "M", "e", "s", "s", "a", "g", "e">>
S_Note == <<"N", "o", "t", "e">>
S_status == <<"s", "t", "a", "t", "u", "s">>
S_ok == <<"o", "k">>
S_error == <<"e", "r", "r", "o", "r">>
S_articles == <<"a", "r", "t", "i", "c", "l", "e", "s">>
S_message == <<"m", "e", "s", "s", "a", "g", "e">>
S_title == <<"t", "i", "t", "l", "e">>
S_bitcoin == <<"b", "i", "t", "c", "o", "i", "n">>
S_ethereum == <<"e", "t", "h", "e", "r", "e", "u", "m">>
S_usd == <<"u", "s", "d">>
S_inr == <<"i", "n", "r">>
S_regularMarketPrice ==
    <<"r", "e", "g", "u", "l", "a", "r", "M", "a", "r", "k", "e", "t", "P", "r", "i", "c", "e">>
S_date1 == <<"2", "0", "2", "4", "-", "0", "1", "-", "0", "1">>
S_date2 == <<"2", "0", "2", "4", "-", "0", "3", "-", "3", "1">>
S_key == <<"k", "e", "y">>

(* ------------------------- Python primitives --------------------------- *)

\* bool(v): the truth value the `if` and `and` of the handlers test
Truthy(v) ==
    CASE v.t = "None" -> FALSE
      [] v.t = "bool" -> v.bool
      [] v.t = "int" -> v.int # 0
      [] v.t = "float" -> v.m # 0
      [] v.t = "str" -> Len(v.str) > 0
      [] v.t = "list" -> Len(v.list) > 0
      [] v.t = "dict" -> DOMAIN v.dict # {}

\* str.__contains__: substring test
IsSubstring(k, s) ==
    \E i \in 0..(Len(s) - Len(k)) : \A j \in 1..Len(k) : s[i + j] = k[j]

\* `k in v` for a str k
Contains(k, v) ==
    CASE v.t = "dict" -> Returned(k \in DOMAIN v.dict)
      [] v.t = "list" -> Returned(\E i \in 1..Len(v.list) : v.list[i] = PyStr(k))
      [] v.t = "str" -> Returned(IsSubstring(k, v.str))
      [] OTHER -> Raised("TypeError")

\* `v[k]` for a str k
GetItem(v, k) ==
    CASE v.t = "dict" ->
            IF k \in DOMAIN v.dict THEN Returned(v.dict[k]) ELSE Raised("KeyError")
      [] OTHER -> Raised("TypeError")

\* `v.get(k, default)`: only a dict has the method
Get(v, k, default) ==
    CASE v.t = "dict" ->
            IF k \in DOMAIN v.dict THEN Returned(v.dict[k]) ELSE Returned(default)
      [] OTHER -> Raised("AttributeError")

Digits == {"0", "1", "2", "3", "4", "5", "6", "7", "8", "9"}

DigitVal(c) ==
    CASE c = "0" -> 0 [] c = "1" -> 1 [] c = "2" -> 2 [] c = "3" -> 3
      [] c = "4" -> 4 [] c = "5" -> 5 [] c = "6" -> 6 [] c = "7" -> 7
      [] c = "8" -> 8 [] c = "9" -> 9

RECURSIVE DigitsValue(_)
DigitsValue(s) ==
    IF s = <<>> THEN 0
    ELSE 10 * DigitsValue(SubSeq(s, 1, Len(s) - 1)) + DigitVal(s[Len(s)])

\* float(s) for a str s: [sign] digits ["." [digits]] or [sign] "." digits.
\* (The strings of the model hold no blank, exponent, underscore, inf or nan.)
ParseFloat(s) ==
    LET signed == Len(s) > 0 /\ s[1] \in {"-", "+"}
        body == IF signed THEN Tail(s) ELSE s
        dots == {i \in 1..Len(body) : body[i] = "."}
        digs == SelectSeq(body, LAMBDA c : c \in Digits)
        wellFormed == /\ \A i \in 1..Len(body) : body[i] \in Digits \cup {"."}
                      /\ Cardinality(dots) <= 1
                      /\ Len(digs) > 0
        e == IF dots = {} THEN 0 ELSE Len(body) - (CHOOSE i \in dots : TRUE)
        m == DigitsValue(digs)
    IN  IF ~wellFormed THEN Raised("ValueError")
        ELSE Returned(PyFloat(IF signed /\ s[1] = "-" THEN 0 - m ELSE m, e))

\* float(v)
ToFloat(v) ==
    CASE v.t = "float" -> Returned(v)
      [] v.t = "int" -> Returned(PyFloat(v.int, 0))
      [] v.t = "bool" -> Returned(PyFloat(IF v.bool THEN 1 ELSE 0, 0))
      [] v.t = "str" -> ParseFloat(v.str)
      [] OTHER -> Raised("TypeError")

(* ------------------------ results of a handler ------------------------- *)

\* a handler returned v, after d diagnostics (print) and g calls of requests.get
Ret(v, d, g) == [ok |-> TRUE, val |-> v, diag |-> d, gets |-> g]
\* exception e left the handler
Exc(e, d, g) == [ok |-> FALSE, exc |-> e, diag |-> d, gets |-> g]

(* ----------------------------- transport ------------------------------- *)

\* what requests.get(url) does: it raises, or it hands back a response with
\* a status code and a body that json() decodes or not
Undecodable == [t |-> "undecodable"]
Response(status, body) == [kind |-> "response", status |-> status, body |-> body]
GetRaises(e) == [kind |-> e]

TransportErrors == {"ConnectionError", "Timeout", "RequestException"}

\* response.raise_for_status(): HTTPError for a 4xx or 5xx status
raise_for_status(status) == 400 <= status /\ status < 600

\* variant: the Timeout handler of lines 24-25 is missing
MakeRequest_TimeoutEscapes(resp) ==
    IF resp.kind = "ConnectionError" THEN Ret(PyNone, 1, 1)
    ELSE IF resp.kind = "Timeout" THEN Exc("Timeout", 0, 1)
    ELSE IF resp.kind = "RequestException" THEN Ret(PyNone, 1, 1)
    ELSE IF raise_for_status(resp.status) THEN Ret(PyNone, 1, 1)
    ELSE IF resp.body = Undecodable THEN Ret(PyNone, 1, 1)
    ELSE Ret(resp.body, 0, 1)

\* variant: a connection failure is retried once
MakeRequest_Retries(resp) ==
    IF resp.kind = "ConnectionError" THEN Ret(PyNone, 2, 2)
    ELSE IF resp.kind = "Timeout" THEN Ret(PyNone, 1, 1)
    ELSE IF resp.kind = "RequestException" THEN Ret(PyNone, 1, 1)
    ELSE IF raise_for_status(resp.status) THEN Ret(PyNone, 1, 1)
    ELSE IF resp.body = Undecodable THEN Ret(PyNone, 1, 1)
    ELSE Ret(resp.body, 0, 1)

\* FinancialDataFetcher._make_request
FinancialDataFetcher_make_request(resp) ==
    IF resp.kind = "ConnectionError" THEN Ret(PyNone, 1, 1)
    ELSE IF resp.kind = "Timeout" THEN Ret(PyNone, 1, 1)
    ELSE IF resp.kind = "RequestException" THEN Ret(PyNone, 1, 1)
    ELSE IF raise_for_status(resp.status) THEN Ret(PyNone, 1, 1)
    ELSE IF resp.body = Undecodable THEN Ret(PyNone, 1, 1)
    ELSE Ret(resp.body, 0, 1)

\* NewsFetcher._make_request
NewsFetcher_make_request(resp) ==
    IF resp.kind = "ConnectionError" THEN Ret(PyNone, 1, 1)
    ELSE IF resp.kind = "Timeout" THEN Ret(PyNone, 1, 1)
    ELSE IF resp.kind = "RequestException" THEN Ret(PyNone, 1, 1)
    ELSE IF raise_for_status(resp.status) THEN Ret(PyNone, 1, 1)
    ELSE IF resp.body = Undecodable THEN Ret(PyNone, 1, 1)
    ELSE Ret(resp.body, 0, 1)

(* ------------------------ FinancialDataFetcher ------------------------- *)

\* `data and k in data`
AndContains(data, k) ==
    IF Truthy(data) THEN Contains(k, data) ELSE Returned(FALSE)

\* lines 41-52 of get_us_stock_price, entered with d diagnostics and g GETs
UsStockPriceOf(data, d, g) ==
    LET hasQuote == AndContains(data, S_GlobalQuote)
    IN  IF ~hasQuote.ok THEN Exc(hasQuote.exc, d, g)
        ELSE IF hasQuote.val THEN
            LET quote == GetItem(data, S_GlobalQuote)
                field == IF quote.ok THEN GetItem(quote.val, S_Price) ELSE quote
                price == IF field.ok THEN ToFloat(field.val) ELSE field
            IN  IF price.ok THEN Ret(price.val, d, g)
                ELSE IF price.exc \in {"KeyError", "ValueError"} THEN Ret(PyNone, d + 1, g)
                ELSE Exc(price.exc, d, g)
        ELSE
            LET hasError == AndContains(data, S_ErrorMessage)
            IN  IF ~hasError.ok THEN Exc(hasError.exc, d, g)
                ELSE IF hasError.val THEN
                    LET msg == GetItem(data, S_ErrorMessage)
                    IN  IF msg.ok THEN Ret(PyNone, d + 1, g) ELSE Exc(msg.exc, d, g)
                ELSE IF Truthy(data) THEN Ret(PyNone, d + 1, g)
                ELSE Ret(PyNone, d, g)

\* variant: line 34 written `if self.alpha_vantage_api_key is None`
UsStockPrice_KeyIsNone(key, symbol, resp) ==
    IF key = PyNone THEN Ret(PyNone, 1, 0)
    ELSE LET r == FinancialDataFetcher_make_request(resp)
         IN  IF r.ok THEN UsStockPriceOf(r.val, r.diag, r.gets) ELSE r

get_us_stock_price(key, symbol, resp) ==
    IF ~Truthy(key) THEN Ret(PyNone, 1, 0)
    ELSE LET r == FinancialDataFetcher_make_request(resp)
         IN  IF r.ok THEN UsStockPriceOf(r.val, r.diag, r.gets) ELSE r

\* lines 84-93 of get_crypto_price
CryptoPriceOf(data, crypto_id, vs_currency, d, g) ==
    LET hasId == AndContains(data, crypto_id)
        asset == IF hasId.ok /\ hasId.val THEN GetItem(data, crypto_id) ELSE hasId
        hasCur == IF hasId.ok /\ hasId.val
                  THEN (IF asset.ok THEN Contains(vs_currency, asset.val) ELSE asset)
                  ELSE hasId
    IN  IF ~hasCur.ok THEN Exc(hasCur.exc, d, g)
        ELSE IF hasCur.val THEN
            LET level1 == GetItem(data, crypto_id)
                level2 == IF level1.ok THEN GetItem(level1.val, vs_currency) ELSE level1
                price == IF level2.ok THEN ToFloat(level2.val) ELSE level2
            IN  IF price.ok THEN Ret(price.val, d, g)
                ELSE IF price.exc \in {"KeyError", "ValueError"} THEN Ret(PyNone, d + 1, g)
                ELSE Exc(price.exc, d, g)
        ELSE IF Truthy(data) THEN Ret(PyNone, d + 1, g)
        ELSE Ret(PyNone, d, g)

get_crypto_price(crypto_id, vs_currency, resp) ==
    LET r == FinancialDataFetcher_make_request(resp)
    IN  IF r.ok THEN CryptoPriceOf(r.val, crypto_id, vs_currency, r.diag, r.gets) ELSE r

(* ----------------------------- NewsFetcher ----------------------------- *)

\* lines 139-143 of get_financial_news
NewsOf(data, d, g) ==
    LET status == IF Truthy(data) THEN Get(data, S_status, PyNone) ELSE Returned(PyNone)
    IN  IF ~status.ok THEN Exc(status.exc, d, g)
        ELSE IF Truthy(data) /\ status.val = PyStr(S_ok) THEN
            LET articles == Get(data, S_articles, PyList(<<>>))
            IN  IF articles.ok THEN Ret(articles.val, d, g) ELSE Exc(articles.exc, d, g)
        ELSE IF Truthy(data) THEN
            LET message == Get(data, S_message, PyStr(<<>>))
            IN  IF message.ok THEN Ret(PyList(<<>>), d + 1, g) ELSE Exc(message.exc, d, g)
        ELSE Ret(PyList(<<>>), d, g)

\* language, page_size and sort_by only travel in the request parameters
get_financial_news(key, query, resp) ==
    IF ~Truthy(key) THEN Ret(PyList(<<>>), 1, 0)
    ELSE LET r == NewsFetcher_make_request(resp)
         IN  IF r.ok THEN NewsOf(r.val, r.diag, r.gets) ELSE r

(* ------------------------- YFinanceDataHandler ------------------------- *)

\* what the yfinance library does for one ticker: yf.Ticker(...) raises, the
\* attribute or method used raises, or it yields an info structure / a frame
LibTickerRaises == [kind |-> "TickerRaises"]
LibCallRaises == [kind |-> "CallRaises"]
LibInfo(info) == [kind |-> "info", info |-> info]
LibFrame(rows) == [kind |-> "frame", frame |-> [t |-> "DataFrame", rows |-> rows]]

NoQuery == [mode |-> "none"]

\* variant: line 49 written `if current_price is not None`
CurrentPrice_NotNone(ticker_symbol, lib) ==
    IF lib.kind # "info" THEN Ret(PyNone, 1, 0)
    ELSE LET current_price == Get(lib.info, S_regularMarketPrice, PyNone)
         IN  IF ~current_price.ok THEN Ret(PyNone, 1, 0)
             ELSE IF current_price.val # PyNone THEN Ret(current_price.val, 0, 0)
             ELSE Ret(PyNone, 1, 0)

fetch_current_price(ticker_symbol, lib) ==
    IF lib.kind # "info" THEN Ret(PyNone, 1, 0)
    ELSE LET current_price == Get(lib.info, S_regularMarketPrice, PyNone)
         IN  IF ~current_price.ok THEN Ret(PyNone, 1, 0)
             ELSE IF Truthy(current_price.val) THEN Ret(current_price.val, 0, 0)
             ELSE Ret(PyNone, 1, 0)

\* variant: line 24 written `if start_date or end_date`
HistoricalData_EitherDate(ticker_symbol, start_date, end_date, period, interval, lib) ==
    IF lib.kind = "TickerRaises" THEN [query |-> NoQuery] @@ Ret(PyNone, 1, 0)
    ELSE
        LET query == IF Truthy(start_date) \/ Truthy(end_date)
                     THEN [mode |-> "dates", start |-> start_date, end |-> end_date,
                           interval |-> interval]
                     ELSE [mode |-> "period", period |-> period, interval |-> interval]
        IN  IF lib.kind # "frame" THEN [query |-> query] @@ Ret(PyNone, 1, 0)
            ELSE IF Len(lib.frame.rows) = 0 THEN [query |-> query] @@ Ret(PyNone, 1, 0)
            ELSE [query |-> query] @@ Ret(lib.frame, 0, 0)

\* the result carries the arguments ticker.history was called with
fetch_historical_data(ticker_symbol, start_date, end_date, period, interval, lib) ==
    IF lib.kind = "TickerRaises" THEN [query |-> NoQuery] @@ Ret(PyNone, 1, 0)
    ELSE
        LET query == IF Truthy(start_date) /\ Truthy(end_date)
                     THEN [mode |-> "dates", start |-> start_date, end |-> end_date,
                           interval |-> interval]
                     ELSE [mode |-> "period", period |-> period, interval |-> interval]
        IN  IF lib.kind # "frame" THEN [query |-> query] @@ Ret(PyNone, 1, 0)
            ELSE IF Len(lib.frame.rows) = 0 THEN [query |-> query] @@ Ret(PyNone, 1, 0)
            ELSE [query |-> query] @@ Ret(lib.frame, 0, 0)

get_indian_stock_price(symbol, lib) == fetch_current_price(symbol, lib)

get_indian_stock_historical_data(symbol, start_date, end_date, period, interval, lib) ==
    fetch_historical_data(symbol, start_date, end_date, period, interval, lib)

(* ------------------------------- inputs -------------------------------- *)

Alphabet == {"0", "1", ".", "-", "x"}
Strings(n) == UNION {[1..k -> Alphabet] : k \in 0..n}

S_150_25 == <<"1", "5", "0", ".", "2", "5">>
S_A == <<"A">>
S_B == <<"B">>

\* os.getenv: unset, set to the empty string, set
KeyValues == {PyNone, PyStr(<<>>), PyStr(S_key)}

Symbols == {"AAPL"}
Tickers == {"RELIANCE.NS"}

PriceValues ==
    {PyStr(s) : s \in Strings(MaxStrLen) \cup {S_150_25}}
        \cup {PyNone, PyInt(0), PyInt(150), PyFloat(15025, 2), PyBool(TRUE),
              PyList(<<>>), EmptyDict}

QuoteValues ==
    {PyDict(S_Price :> v) : v \in PriceValues}
        \cup {EmptyDict, PyDict(S_Note :> PyStr(S_A)), PyNone, PyInt(1),
              PyStr(S_Price), PyList(<<PyStr(S_Price)>>)}

GoodQuote == PyDict(S_Price :> PyStr(S_150_25))
GoodUsBody == PyDict(S_GlobalQuote :> GoodQuote)

UsBodies ==
    {PyDict(S_GlobalQuote :> q) : q \in QuoteValues}
        \cup {PyDict((S_GlobalQuote :> q) @@ (S_ErrorMessage :> PyStr(S_A))) :
                q \in {GoodQuote, EmptyDict, PyDict(S_Price :> PyStr(<<"x">>))}}
        \cup {PyDict(S_ErrorMessage :> PyStr(S_A)), PyDict(S_Note :> PyStr(S_A)),
              EmptyDict, PyNone, PyInt(0), PyInt(5), PyFloat(15, 1),
              PyBool(TRUE), PyBool(FALSE),
              PyStr(<<>>), PyStr(S_A), PyStr(S_GlobalQuote), PyStr(S_ErrorMessage),
              PyList(<<>>), PyList(<<PyInt(1)>>),
              PyList(<<PyStr(S_GlobalQuote)>>), PyList(<<PyStr(S_ErrorMessage)>>)}

CryptoIds == {S_bitcoin, S_ethereum}
Currencies == {S_usd, S_inr}

CryptoValues ==
    {PyFloat(670005, 1), PyInt(67000), PyInt(0), PyStr(<<"1", ".", "5">>),
     PyStr(<<"x">>), PyNone, PyBool(TRUE), PyList(<<>>), EmptyDict}

CryptoAssets ==
    {PyDict(S_usd :> v) : v \in CryptoValues}
        \cup {EmptyDict, PyDict(S_inr :> PyInt(5)), PyNone, PyInt(1), PyStr(S_usd),
              PyList(<<PyStr(S_usd)>>)}

GoodCryptoBody == PyDict(S_bitcoin :> PyDict(S_usd :> PyFloat(670005, 1)))

CryptoBodies ==
    {PyDict(S_bitcoin :> a) : a \in CryptoAssets}
        \cup {PyDict(S_ethereum :> PyDict(S_usd :> PyInt(3))),
              EmptyDict, PyNone, PyInt(5), PyStr(<<>>), PyStr(S_bitcoin),
              PyList(<<>>), PyList(<<PyStr(S_bitcoin)>>)}

Article(title) == PyDict(S_title :> PyStr(title))

ArticleLists ==
    {<<>>, <<Article(S_A)>>, <<Article(S_A), Article(S_B)>>,
     <<Article(S_B), Article(S_A)>>, <<Article(S_A), Article(S_A)>>}

GoodNewsBody ==
    PyDict((S_status :> PyStr(S_ok))
            @@ (S_articles :> PyList(<<Article(S_A), Article(S_B)>>)))

NewsBodies ==
    {PyDict((S_status :> PyStr(S_ok)) @@ (S_articles :> PyList(l))) : l \in ArticleLists}
        \cup {PyDict((S_status :> PyStr(S_ok)) @@ (S_articles :> v)) :
                v \in {PyNone, PyStr(S_A), EmptyDict, PyInt(1)}}
        \cup {PyDict(S_status :> PyStr(S_ok)),
              PyDict((S_status :> PyStr(S_error)) @@ (S_message :> PyStr(S_A))),
              PyDict((S_status :> PyStr(S_error))
                      @@ (S_articles :> PyList(<<Article(S_A)>>))),
              PyDict(S_status :> PyNone), PyDict(S_status :> PyInt(1)),
              PyDict(S_message :> PyStr(S_A)),
              PyDict(S_articles :> PyList(<<Article(S_A)>>)),
              EmptyDict, PyNone, PyInt(1), PyStr(<<>>), PyStr(S_ok),
              PyList(<<>>), PyList(<<Article(S_A)>>)}

Queries == {"stocks OR finance OR cryptocurrency"}

Statuses == {200, 300, 404, 500}

\* every outcome of one GET: any enumerated body with status 200, a decodable
\* and an undecodable body with each other status, and each transport error
Responses(bodies, good) ==
    {Response(200, b) : b \in bodies \cup {Undecodable}}
        \cup {Response(st, b) : st \in Statuses \ {200}, b \in {good, Undecodable}}
        \cup {GetRaises(e) : e \in TransportErrors}

InfoValues ==
    {PyDict(S_regularMarketPrice :> v) :
        v \in {PyNone, PyInt(0), PyFloat(0, 0), PyInt(2500), PyFloat(25005, 1),
               PyFloat(0 - 5, 1), PyStr(<<>>), PyBool(FALSE)}}
        \cup {EmptyDict, PyDict(S_Note :> PyInt(1)), PyNone}

PriceLibOutcomes ==
    {LibTickerRaises, LibCallRaises} \cup {LibInfo(i) : i \in InfoValues}

HistLibOutcomes ==
    {LibTickerRaises, LibCallRaises, LibFrame(<<>>), LibFrame(<<1, 2>>)}

StartDates == {PyNone, PyStr(<<>>), PyStr(S_date1)}
EndDates == {PyNone, PyStr(<<>>), PyStr(S_date2)}
Periods == {"1mo", "1y"}
Intervals == {"1d"}

(* ---------------------------- state machine ---------------------------- *)

NoEnv == [kind |-> "none"]

\* FinancialDataFetcher.__init__ and NewsFetcher.__init__ copy the keys that
\* config.py read from the environment; nothing has been invoked yet
Init ==
    /\ alpha_vantage_api_key \in KeyValues
    /\ news_api_key \in KeyValues
    /\ calls = 0
    /\ gets = 0
    /\ last = [op |-> "none"]

\* one invocation: its arguments, the outcome of the network or library call
\* it consumed (NoEnv if it made none) and what it did
Invoke(op, args, env, out) ==
    /\ last' = [op |-> op, args |-> args,
                env |-> IF op \in {"get_us_stock_price", "get_crypto_price",
                                   "get_financial_news"} /\ out.gets = 0
                        THEN NoEnv ELSE env,
                out |-> out]
    /\ calls' = calls + 1
    /\ gets' = gets + out.gets
    /\ UNCHANGED <<alpha_vantage_api_key, news_api_key>>

UsStockPrice ==
    /\ calls < MaxCalls
    /\ \E symbol \in Symbols, resp \in Responses(UsBodies, GoodUsBody) :
           Invoke("get_us_stock_price", <<symbol>>, resp,
                  get_us_stock_price(alpha_vantage_api_key, symbol, resp))

CryptoPrice ==
    /\ calls < MaxCalls
    /\ \E crypto_id \in CryptoIds, vs_currency \in Currencies,
          resp \in Responses(CryptoBodies, GoodCryptoBody) :
           Invoke("get_crypto_price", <<crypto_id, vs_currency>>, resp,
                  get_crypto_price(crypto_id, vs_currency, resp))

FinancialNews ==
    /\ calls < MaxCalls
    /\ \E query \in Queries, resp \in Responses(NewsBodies, GoodNewsBody) :
           Invoke("get_financial_news", <<query>>, resp,
                  get_financial_news(news_api_key, query, resp))

IndianStockPrice ==
    /\ calls < MaxCalls
    /\ \E symbol \in Tickers, lib \in PriceLibOutcomes :
           Invoke("get_indian_stock_price", <<symbol>>, lib,
                  get_indian_stock_price(symbol, lib))

IndianStockHistoricalData ==
    /\ calls < MaxCalls
    /\ \E symbol \in Tickers, start_date \in StartDates, end_date \in EndDates,
          period \in Periods, interval \in Intervals, lib \in HistLibOutcomes :
           Invoke("get_indian_stock_historical_data",
                  [start_date |-> start_date, end_date |-> end_date,
                   period |-> period, interval |-> interval], lib,
                  get_indian_stock_historical_data(symbol, start_date, end_date,
                                                   period, interval, lib))

Next ==
    \/ UsStockPrice
    \/ CryptoPrice
    \/ FinancialNews
    \/ IndianStockPrice
    \/ IndianStockHistoricalData

Spec == Init /\ [][Next]_vars

(* ------------------------------- claims -------------------------------- *)

HttpOps == {"get_us_stock_price", "get_crypto_price", "get_financial_news"}
QuoteOps == {"get_us_stock_price", "get_crypto_price"}

\* the absent value of an operation
Absent(op) == IF op = "get_financial_news" THEN PyList(<<>>) ELSE PyNone

ReturnedAbsent == last.out.ok /\ last.out.val = Absent(last.op)

\* the last invocation issued its GET
Fetched == last.op \in HttpOps /\ last.env # NoEnv

\* ... and the GET produced a body that json() decoded
Decoded ==
    /\ Fetched
    /\ last.env.kind = "response"
    /\ ~(400 <= last.env.status /\ last.env.status < 600)
    /\ last.env.body # Undecodable

IsDict(v) == v.t = "dict"
HasKey(v, k) == IsDict(v) /\ k \in DOMAIN v.dict

\* C1 as stated: after a connection failure, a timeout, a non-2xx status, any
\* other request error or an undecodable body, the operation returns its
\* absent value and no exception leaves it.
C1_NonSuccessStatusAbsent ==
    (/\ Fetched
     /\ \/ last.env.kind \in TransportErrors
        \/ /\ last.env.kind = "response"
           /\ \/ ~(200 <= last.env.status /\ last.env.status < 300)
              \/ last.env.body = Undecodable)
        => ReturnedAbsent

\* C1 amended: after a connection failure, a timeout, a 4xx or 5xx status, any
\* other request error or an undecodable body, the operation returns its
\* absent value and no exception leaves it.
C1_TransportFailureAbsent ==
    (/\ Fetched
     /\ \/ last.env.kind \in TransportErrors
        \/ /\ last.env.kind = "response"
           /\ \/ (400 <= last.env.status /\ last.env.status < 600)
              \/ last.env.body = Undecodable)
        => ReturnedAbsent

C1_Witness ==
    /\ Fetched
    /\ last.op = "get_us_stock_price"
    /\ last.env = Response(500, GoodUsBody)
    /\ ReturnedAbsent

\* C2: with the Alpha Vantage key unset or empty get_us_stock_price returns
\* None, and with the News API key unset or empty get_financial_news returns
\* an empty list; neither calls the transport layer nor raises.
C2_MissingCredentialNoIO ==
    /\ (last.op = "get_us_stock_price"
            /\ alpha_vantage_api_key \in {PyNone, PyStr(<<>>)})
        => (ReturnedAbsent /\ last.out.gets = 0 /\ last.env = NoEnv)
    /\ (last.op = "get_financial_news" /\ news_api_key \in {PyNone, PyStr(<<>>)})
        => (ReturnedAbsent /\ last.out.gets = 0 /\ last.env = NoEnv)

C2_Witness ==
    /\ last.op = "get_us_stock_price"
    /\ alpha_vantage_api_key = PyStr(<<>>)
    /\ last.out.gets = 0
    /\ gets = 0

\* C3: whatever the shape of a decoded body, get_us_stock_price and
\* get_crypto_price return a float or None, and no exception leaves them.
C3_DecodedBodyNeverRaises ==
    (Decoded /\ last.op \in QuoteOps)
        => (last.out.ok /\ last.out.val.t \in {"float", "None"})

\* the body of the last invocation reported success to get_financial_news
NewsOkBody ==
    /\ Decoded
    /\ HasKey(last.env.body, S_status)
    /\ last.env.body.dict[S_status] = PyStr(S_ok)

\* C4: an invocation that ends in the absent result emits exactly one
\* diagnostic, and an invocation that returns a value emits none.
C4_OneDiagnosticPerFailure ==
    (last.op # "none" /\ last.out.ok)
        => IF ReturnedAbsent /\ ~(last.op = "get_financial_news" /\ NewsOkBody)
           THEN last.out.diag = 1
           ELSE last.out.diag = 0
\* the str v spells a number float() accepts
IsNumericString(v) == v.t = "str" /\ ParseFloat(v.str).ok

\* C5: with the credential present, a "Global Quote" object whose "05. price"
\* is a string-encoded number gives that number as a float ("150.25" gives
\* 150.25); a body carrying "Error Message" gives None; a body with no
\* "Global Quote" key gives None; a "Global Quote" object lacking "05. price"
\* or holding a non-numeric string gives None.
C5_UsStockPriceMapping ==
    (Decoded /\ last.op = "get_us_stock_price") =>
        LET body == last.env.body
            quoted == HasKey(body, S_GlobalQuote) /\ IsDict(body.dict[S_GlobalQuote])
            quote == body.dict[S_GlobalQuote]
            priced == quoted /\ HasKey(quote, S_Price)
            price == quote.dict[S_Price]
        IN  /\ (priced /\ IsNumericString(price))
                => (/\ last.out.ok
                    /\ last.out.val.t = "float"
                    /\ (price = PyStr(S_150_25)
                            => last.out.val = [t |-> "float", m |-> 15025, e |-> 2]))
            /\ HasKey(body, S_ErrorMessage) => ReturnedAbsent
            /\ ~HasKey(body, S_GlobalQuote) => ReturnedAbsent
            /\ (quoted /\ ~HasKey(quote, S_Price)) => ReturnedAbsent
            /\ (priced /\ price.t = "str" /\ ~IsNumericString(price)) => ReturnedAbsent

\* C6: get_crypto_price returns body[crypto_id][vs_currency] as a float when
\* both levels are present and the value is numeric; it returns None when the
\* asset id level or the currency level is missing, and when the numeric
\* coercion of the value fails.
C6_CryptoPriceMapping ==
    (Decoded /\ last.op = "get_crypto_price") =>
        LET body == last.env.body
            crypto_id == last.args[1]
            vs_currency == last.args[2]
            level1 == HasKey(body, crypto_id) /\ IsDict(body.dict[crypto_id])
            asset == body.dict[crypto_id]
            level2 == level1 /\ HasKey(asset, vs_currency)
            value == asset.dict[vs_currency]
        IN  /\ (level2 /\ value.t \in {"int", "float"})
                => (/\ last.out.ok
                    /\ last.out.val.t = "float"
                    /\ (value = PyFloat(670005, 1) => last.out.val = value))
            /\ (IsDict(body) /\ ~HasKey(body, crypto_id)) => ReturnedAbsent
            /\ (level1 /\ ~HasKey(asset, vs_currency)) => ReturnedAbsent
            /\ (level2 /\ ~ToFloat(value).ok) => ReturnedAbsent

\* C7: get_financial_news always returns a list and never raises: the records
\* under "articles", in upstream order, when the status is "ok" (an empty list
\* if the key is absent), and an empty list in every other case.
C7_NewsAlwaysSequence ==
    (last.op = "get_financial_news") =>
        /\ last.out.ok
        /\ last.out.val.t = "list"
        /\ IF NewsOkBody
           THEN last.out.val = (IF HasKey(last.env.body, S_articles)
                                THEN last.env.body.dict[S_articles]
                                ELSE PyList(<<>>))
           ELSE last.out.val = PyList(<<>>)

\* the credential the last HTTP operation needs is present
CredentialPresent ==
    CASE last.op = "get_us_stock_price" -> alpha_vantage_api_key = PyStr(S_key)
      [] last.op = "get_financial_news" -> news_api_key = PyStr(S_key)
      [] last.op = "get_crypto_price" -> TRUE

\* C8: an HTTP operation issues exactly one GET when its credential is present
\* (get_crypto_price always) and none otherwise, never a second one, and the
\* total number of GETs never exceeds the number of invocations.
C8_SingleAttempt ==
    /\ gets <= calls
    /\ last.op \in HttpOps
        => last.out.gets = (IF CredentialPresent THEN 1 ELSE 0)

C8_Witness ==
    /\ calls = MaxCalls
    /\ gets = MaxCalls
    /\ last.op = "get_crypto_price"
    /\ last.env = GetRaises("ConnectionError")
    /\ last.out.gets = 1

\* a date argument is given: a non-empty string
Given(date) == date # PyNone /\ date # PyStr(<<>>)

\* C9: fetch_historical_data queries the library with start, end and interval
\* exactly when both dates are given, and with period and interval otherwise;
\* it returns a non-empty result unchanged, None for an empty result, and
\* None when the library raises.
C9_HistoricalData ==
    (last.op = "get_indian_stock_historical_data") =>
        LET a == last.args
            q == last.out.query
            lib == last.env
        IN  /\ last.out.ok
            /\ lib.kind # "TickerRaises" =>
                   IF Given(a.start_date) /\ Given(a.end_date)
                   THEN q = [mode |-> "dates", start |-> a.start_date,
                             end |-> a.end_date, interval |-> a.interval]
                   ELSE q = [mode |-> "period", period |-> a.period,
                             interval |-> a.interval]
            /\ IF lib.kind = "frame" /\ lib.frame.rows # <<>>
               THEN last.out.val = lib.frame
               ELSE last.out.val = PyNone

C9_Witness ==
    /\ last.op = "get_indian_stock_historical_data"
    /\ last.args.start_date = PyStr(S_date1)
    /\ last.args.end_date = PyNone
    /\ last.out.query.mode = "period"
    /\ last.out.val = [t |-> "DataFrame", rows |-> <<1, 2>>]

\* C10: fetch_current_price returns the regularMarketPrice value unchanged
\* exactly when it is truthy; when the field is missing, not truthy (zero,
\* null), or the lookup raises, it returns None and nothing is raised.
C10_CurrentPrice ==
    (last.op = "get_indian_stock_price") =>
        LET lib == last.env
            present == lib.kind = "info" /\ HasKey(lib.info, S_regularMarketPrice)
            value == lib.info.dict[S_regularMarketPrice]
            falsy == {PyNone, PyBool(FALSE), PyInt(0), PyFloat(0, 0), PyStr(<<>>)}
        IN  /\ last.out.ok
            /\ IF present /\ value \notin falsy
               THEN last.out.val = value
               ELSE last.out.val = PyNone

C10_Witness ==
    /\ last.op = "get_indian_stock_price"
    /\ last.env = LibInfo(PyDict(S_regularMarketPrice :> PyInt(0)))
    /\ last.out.val = PyNone

====
